---- MODULE Spec2Model ----
(***************************************************************************)
(* StatsLib: the Weibull density (dweibull) and the Normal distribution    *)
(* function (pnorm), their scalar layering                                 *)
(*    dweibull -> dweibull_type_check -> dweibull_vals_check               *)
(*             -> dweibull_log_compute                                     *)
(*    pnorm    -> pnorm_type_check    -> pnorm_vals_check -> pnorm_compute *)
(* and their container overloads, which hand an elementwise kernel         *)
(* (dweibull_vec, pnorm_vec) to a backend macro.                           *)
(*                                                                         *)
(* Floating values are modelled as a small IEEE-like format: a class       *)
(* (nan, ninf, fin, pinf) and, for finite values, a fixed-point magnitude  *)
(* with Scale units per 1.0.  Results beyond FMax overflow to an infinity, *)
(* results below one unit underflow to 0.  Integral arguments carry the    *)
(* class "int" until the type-check layer casts them to the common type.   *)
(***************************************************************************)
EXTENDS Integers, Sequences, FiniteSets

VARIABLES pc, fn, backend, x_in, par1, par2, log_form, ret, vals_in, vals_out, done

vars == <<pc, fn, backend, x_in, par1, par2, log_form, ret, vals_in, vals_out, done>>

(***************************************************************************)
(* Bounds of the model.                                                    *)
(***************************************************************************)
\* x ranges over the multiples of 0.5 in [-MaxX/2, MaxX/2] (plus specials)
MaxX == 4
\* parameters range over the multiples of 0.5 in [-0.5, MaxPar/2] (plus specials)
MaxPar == 4
\* longest input container
MaxLen == 2

(***************************************************************************)
(* The number format.                                                      *)
(***************************************************************************)
Scale == 10 * 1000
FMax == 10000 * Scale

NaN == [cls |-> "nan", val |-> 0]
PInf == [cls |-> "pinf", val |-> 0]
NInf == [cls |-> "ninf", val |-> 0]
Fin(n) == [cls |-> "fin", val |-> n]
IntArg(n) == [cls |-> "int", val |-> n]
Unset == [cls |-> "unset", val |-> 0]
Zero == Fin(0)
One == Fin(Scale)
Half == Fin(Scale \div 2)

IsNaN(a) == a.cls = "nan"
IsFin(a) == a.cls = "fin"
IsInf(a) == a.cls \in {"pinf", "ninf"}

Abs(n) == IF n < 0 THEN -n ELSE n
Sgn(n) == IF n < 0 THEN -1 ELSE IF n > 0 THEN 1 ELSE 0

\* rounding of an exact result into the format: overflow goes to an infinity
Mk(n) == IF n > FMax THEN PInf ELSE IF n < -FMax THEN NInf ELSE Fin(n)

\* the sign of a non-NaN value
SignOf(a) == IF a.cls = "pinf" THEN 1 ELSE IF a.cls = "ninf" THEN -1 ELSE Sgn(a.val)

\* a key that orders the non-NaN values
Key(a) == IF a.cls = "pinf" THEN FMax + 1 ELSE IF a.cls = "ninf" THEN -(FMax + 1) ELSE a.val

\* the comparisons of the format: every comparison with NaN is false
Lt(a, b) == ~IsNaN(a) /\ ~IsNaN(b) /\ Key(a) < Key(b)
Le(a, b) == ~IsNaN(a) /\ ~IsNaN(b) /\ Key(a) <= Key(b)
Gt(a, b) == Lt(b, a)

Neg(a) ==
  IF a.cls = "pinf" THEN NInf
  ELSE IF a.cls = "ninf" THEN PInf
  ELSE IF a.cls = "fin" THEN Fin(-a.val)
  ELSE a

Add(a, b) ==
  IF IsNaN(a) \/ IsNaN(b) THEN NaN
  ELSE IF IsInf(a) /\ IsInf(b) THEN (IF a = b THEN a ELSE NaN)
  ELSE IF IsInf(a) THEN a
  ELSE IF IsInf(b) THEN b
  ELSE Mk(a.val + b.val)

Sub(a, b) == Add(a, Neg(b))

\* product of two magnitudes, truncated to the format; FMax + 1 on overflow
MulMag(a, b) ==
  LET ah == a \div Scale
      al == a % Scale
      bh == b \div Scale
      bl == b % Scale
  IN  IF ah * bh > FMax \div Scale THEN FMax + 1
      ELSE ah * bh * Scale + ah * bl + al * bh + (al * bl) \div Scale

Mul(a, b) ==
  IF IsNaN(a) \/ IsNaN(b) THEN NaN
  ELSE IF IsInf(a) \/ IsInf(b)
       THEN (IF SignOf(a) = 0 \/ SignOf(b) = 0 THEN NaN
             ELSE IF SignOf(a) * SignOf(b) > 0 THEN PInf ELSE NInf)
  ELSE Mk(SignOf(a) * SignOf(b) * MulMag(Abs(a.val), Abs(b.val)))

\* the digits fractional decimal digits of r / b, for 0 <= r < b
RECURSIVE LongDiv(_, _, _)
LongDiv(r, b, digits) ==
  IF digits = 0 THEN 0
  ELSE LET d == (r * 10) \div b
           s == (r * 10) % b
       IN  d * (10 ^ (digits - 1)) + LongDiv(s, b, digits - 1)

\* quotient of two magnitudes (b > 0), truncated; FMax + 1 on overflow
DivMag(a, b) ==
  LET q == a \div b
      r == a % b
  IN  IF q > FMax \div Scale THEN FMax + 1
      ELSE q * Scale + LongDiv(r, b, 4)

Div(a, b) ==
  IF IsNaN(a) \/ IsNaN(b) THEN NaN
  ELSE IF IsInf(a) /\ IsInf(b) THEN NaN
  ELSE IF IsInf(a) THEN (IF SignOf(a) * (IF SignOf(b) < 0 THEN -1 ELSE 1) > 0 THEN PInf ELSE NInf)
  ELSE IF IsInf(b) THEN Zero
  ELSE IF b.val = 0
       THEN (IF a.val = 0 THEN NaN ELSE IF a.val > 0 THEN PInf ELSE NInf)
  ELSE Mk(SignOf(a) * SignOf(b) * DivMag(Abs(a.val), Abs(b.val)))

(***************************************************************************)
(* The math primitives (stmath::log, exp, pow, erf), by table and linear   *)
(* interpolation after range reduction.                                    *)
(***************************************************************************)
\* ln(1 + i/40), i = 0 .. 40
LnTab ==
  << 0, 247, 488, 723, 953, 1178, 1398, 1613, 1823, 2029,
     2231, 2429, 2624, 2814, 3001, 3185, 3365, 3542, 3716, 3887,
     4055, 4220, 4383, 4543, 4700, 4855, 5008, 5158, 5306, 5452,
     5596, 5738, 5878, 6016, 6152, 6286, 6419, 6549, 6678, 6806,
     6931 >>
\* exp(i/80), i = 0 .. 56
ExpTab ==
  << 10000, 10126, 10253, 10382, 10513, 10645, 10779, 10914, 11052, 11191,
     11331, 11474, 11618, 11764, 11912, 12062, 12214, 12368, 12523, 12681,
     12840, 13002, 13165, 13331, 13499, 13668, 13840, 14014, 14191, 14369,
     14550, 14733, 14918, 15106, 15296, 15488, 15683, 15880, 16080, 16282,
     16487, 16695, 16905, 17117, 17333, 17551, 17771, 17995, 18221, 18450,
     18682, 18917, 19155, 19396, 19640, 19887, 20138 >>
\* erf(i/20), i = 0 .. 60
ErfTab ==
  << 0, 564, 1125, 1680, 2227, 2763, 3286, 3794, 4284, 4755,
     5205, 5633, 6039, 6420, 6778, 7112, 7421, 7707, 7969, 8209,
     8427, 8624, 8802, 8961, 9103, 9229, 9340, 9438, 9523, 9597,
     9661, 9716, 9763, 9804, 9838, 9867, 9891, 9911, 9928, 9942,
     9953, 9963, 9970, 9976, 9981, 9985, 9989, 9991, 9993, 9995,
     9996, 9997, 9998, 9998, 9999, 9999, 9999, 9999, 10000, 10000,
     10000 >>

\* the table's value at offset off (>= 0, inside the table), by linear interpolation
Interp(tab, off, step) ==
  LET i == off \div step + 1
      f == off % step
  IN  IF f = 0 THEN tab[i]
      ELSE tab[i] + ((tab[i + 1] - tab[i]) * f) \div step

Ln2 == LnTab[Len(LnTab)]

\* ln of a magnitude n > 0
RECURSIVE LogMag(_)
LogMag(n) ==
  IF n >= 2 * Scale THEN Ln2 + LogMag(n \div 2)
  ELSE IF n < Scale THEN LogMag(2 * n) - Ln2
  ELSE Interp(LnTab, n - Scale, Scale \div 40)

Log(a) ==
  IF IsNaN(a) THEN NaN
  ELSE IF a.cls = "pinf" THEN PInf
  ELSE IF a.cls = "ninf" THEN NaN
  ELSE IF a.val < 0 THEN NaN
  ELSE IF a.val = 0 THEN NInf
  ELSE Fin(LogMag(a.val))

\* exp of a finite n: 2^k * exp(r) with n = k * ln 2 + r; FMax + 1 on overflow
ExpMag(n) ==
  LET k == n \div Ln2
      r == n % Ln2
      e == Interp(ExpTab, r, Scale \div 80)
  IN  IF k >= 14 THEN FMax + 1
      ELSE IF k >= 0 THEN e * (2 ^ k)
      ELSE IF k < -16 THEN 0
      ELSE e \div (2 ^ (-k))

Exp(a) ==
  IF IsNaN(a) THEN NaN
  ELSE IF a.cls = "pinf" THEN PInf
  ELSE IF a.cls = "ninf" THEN Zero
  ELSE Mk(ExpMag(a.val))

\* erf of a magnitude n >= 0; erf is 1 to the format's precision from 3.0 on
ErfMag(n) ==
  IF n >= 3 * Scale THEN Scale
  ELSE Interp(ErfTab, n, Scale \div 20)

Erf(a) ==
  IF IsNaN(a) THEN NaN
  ELSE IF a.cls = "pinf" THEN One
  ELSE IF a.cls = "ninf" THEN Neg(One)
  ELSE Fin(Sgn(a.val) * ErfMag(Abs(a.val)))

\* base^k for an integer k >= 0, by repeated multiplication
RECURSIVE PowInt(_, _)
PowInt(base, k) == IF k = 0 THEN One ELSE Mul(base, PowInt(base, k - 1))

\* pow(base, e)
Pow(base, e) ==
  IF IsNaN(e) THEN (IF base = One THEN One ELSE NaN)
  ELSE IF IsFin(e) /\ e.val = 0 THEN One
  ELSE IF IsNaN(base) THEN NaN
  ELSE IF IsInf(e)
       THEN (IF IsFin(base) /\ Abs(base.val) = Scale THEN One
             ELSE IF (IsFin(base) /\ Abs(base.val) < Scale) = (e.cls = "pinf") THEN Zero
             ELSE PInf)
  ELSE IF e.val % Scale = 0
       THEN (IF e.val > 0 THEN PowInt(base, e.val \div Scale)
             ELSE Div(One, PowInt(base, (-e.val) \div Scale)))
  ELSE IF SignOf(base) < 0 THEN (IF base.cls = "ninf" /\ e.val < 0 THEN Zero
                                 ELSE IF base.cls = "ninf" THEN PInf ELSE NaN)
  ELSE IF SignOf(base) = 0 THEN (IF e.val > 0 THEN Zero ELSE PInf)
  ELSE IF base.cls = "pinf" THEN (IF e.val > 0 THEN PInf ELSE Zero)
  ELSE Exp(Mul(e, Log(base)))

(***************************************************************************)
(* Helpers of the library the two files call.                              *)
(***************************************************************************)
\* static_cast<TC>(v): an integral argument becomes a value of the common type
static_cast_TC(v) == IF v.cls = "int" THEN Mk(v.val * Scale) ELSE v

\* Weibull(k, lambda) is valid iff k > 0 and lambda > 0
weibull_sanity_check(shape_par, scale_par) == Gt(shape_par, Zero) /\ Gt(scale_par, Zero)

\* Normal(mu, sigma) is valid iff sigma > 0 and mu, sigma are finite
norm_sanity_check(mu_par, sigma_par) ==
  IsFin(mu_par) /\ IsFin(sigma_par) /\ Gt(sigma_par, Zero)

log_if(value, want_log) == IF want_log THEN Log(value) ELSE value

exp_if(value, want_true_scale) == IF want_true_scale THEN Exp(value) ELSE value

GCEM_SQRT_2 == Fin(14142)

(***************************************************************************)
(* dweibull, single input.                                                 *)
(***************************************************************************)
\* a slip: the exponent shape_par in place of shape_par - 1
dweibull_log_compute_full_shape(x, shape_par, scale_par) ==
  Sub(Add(Log(Div(shape_par, scale_par)), Mul(shape_par, Log(x))),
      Pow(x, shape_par))

dweibull_log_compute(x, shape_par, scale_par) ==
  Sub(Add(Log(Div(shape_par, scale_par)), Mul(Sub(shape_par, One), Log(x))),
      Pow(x, shape_par))

\* a slip: the support check made before the parameter check
dweibull_vals_check_support_first(x, shape_par, scale_par, want_log) ==
  IF Lt(x, Zero) THEN log_if(Zero, want_log)
  ELSE IF ~weibull_sanity_check(shape_par, scale_par) THEN NaN
  ELSE exp_if(dweibull_log_compute(Div(x, scale_par), shape_par, scale_par), ~want_log)

\* a slip: no support check, every x goes through the general formula
dweibull_vals_check_no_support_check(x, shape_par, scale_par, want_log) ==
  IF ~weibull_sanity_check(shape_par, scale_par) THEN NaN
  ELSE exp_if(dweibull_log_compute(Div(x, scale_par), shape_par, scale_par), ~want_log)

dweibull_vals_check(x, shape_par, scale_par, want_log) ==
  IF ~weibull_sanity_check(shape_par, scale_par) THEN NaN
  ELSE IF Lt(x, Zero) THEN log_if(Zero, want_log)
  ELSE exp_if(dweibull_log_compute(Div(x, scale_par), shape_par, scale_par), ~want_log)

dweibull_type_check(x, shape_par, scale_par, want_log) ==
  dweibull_vals_check(static_cast_TC(x), static_cast_TC(shape_par),
                      static_cast_TC(scale_par), want_log)

dweibull(x, shape_par, scale_par, want_log) ==
  dweibull_type_check(x, shape_par, scale_par, want_log)

(***************************************************************************)
(* pnorm, single input.                                                    *)
(***************************************************************************)
pnorm_compute(z) == Mul(Half, Add(One, Erf(Div(z, GCEM_SQRT_2))))

\* a slip: the parameters are not checked
pnorm_vals_check_unchecked(x, mu_par, sigma_par, want_log) ==
  log_if(pnorm_compute(Div(Sub(x, mu_par), sigma_par)), want_log)

\* a slip: the operands of the standardisation swapped, (mu - x) / sigma
pnorm_vals_check_swapped(x, mu_par, sigma_par, want_log) ==
  IF ~norm_sanity_check(mu_par, sigma_par) THEN NaN
  ELSE log_if(pnorm_compute(Div(Sub(mu_par, x), sigma_par)), want_log)

pnorm_vals_check(x, mu_par, sigma_par, want_log) ==
  IF ~norm_sanity_check(mu_par, sigma_par) THEN NaN
  ELSE log_if(pnorm_compute(Div(Sub(x, mu_par), sigma_par)), want_log)

pnorm_type_check(x, mu_par, sigma_par, want_log) ==
  pnorm_vals_check(static_cast_TC(x), static_cast_TC(mu_par),
                   static_cast_TC(sigma_par), want_log)

pnorm(x, mu_par, sigma_par, want_log) ==
  pnorm_type_check(x, mu_par, sigma_par, want_log)

(***************************************************************************)
(* Inputs.                                                                 *)
(***************************************************************************)
HalfGrid(lo, hi) == { Fin(k * (Scale \div 2)) : k \in lo .. hi }

XGrid == HalfGrid(-MaxX, MaxX) \cup { Fin(18000), NaN, NInf, PInf, IntArg(2) }

WeibullPars == HalfGrid(-1, MaxPar) \cup { Fin(3 * Scale), NaN, IntArg(2) }

NormMu == { Fin(-Scale), Zero, Fin(Scale), NaN, NInf, PInf, IntArg(1) }

NormSigma == HalfGrid(-1, MaxPar) \cup { NaN, PInf, IntArg(2) }

VecX == { Fin(-Scale), Zero, Fin(18000), NaN }

VecPars == { Zero, Fin(2 * Scale), Fin(3 * Scale) }

RECURSIVE SeqsUpTo(_, _)
SeqsUpTo(S, n) ==
  IF n = 0 THEN { <<>> }
  ELSE LET shorter == SeqsUpTo(S, n - 1)
       IN  shorter \cup { Append(s, e) : s \in { t \in shorter : Len(t) = n - 1 }, e \in S }

Containers == SeqsUpTo(VecX, MaxLen)

Backends == { "stdvec", "arma", "blaze", "eigen" }

(***************************************************************************)
(* The container overloads.                                                *)
(***************************************************************************)
\* the elementwise kernels defined in namespace internal
InternalKernels == { "dweibull_vec", "pnorm_vec" }

\* the kernel name each dweibull overload hands to its backend macro
dweibull_kernel(b) == IF b = "blaze" THEN "dweibull" ELSE "dweibull_vec"

\* the kernel name each pnorm overload hands to its backend macro
pnorm_kernel(b) == "pnorm_vec"

Kernel == IF fn = "dweibull" THEN dweibull_kernel(backend)
          ELSE IF fn = "pnorm" THEN pnorm_kernel(backend)
          ELSE "none"

\* a slip: the kernel indexes its input by a running count shared by the
\* iterations instead of its own index
dweibull_vec_elem_shared(j) ==
  dweibull(vals_in[(Cardinality(done) % Len(vals_in)) + 1], par1, par2, log_form)

\* the element the dweibull_vec kernel computes for index j
dweibull_vec_elem(j) == dweibull(vals_in[j], par1, par2, log_form)

\* the element the pnorm_vec kernel computes for index j
pnorm_vec_elem(j) == pnorm(vals_in[j], par1, par2, log_form)

\* a backend macro: allocate an output of the input's shape and run the named
\* kernel over it; a name that is no kernel of namespace internal does not
\* instantiate, and no container is produced
DIST_FN(kernel, b, X) ==
  IF kernel \in InternalKernels
  THEN /\ vals_out' = [i \in 1 .. Len(X) |-> IF b = "stdvec" THEN Zero ELSE Unset]
       /\ pc' = "loop"
  ELSE /\ vals_out' = <<>>
       /\ pc' = "ill_formed"

\* one iteration of the elementwise loop; the iterations may run in any order
EVAL_DIST_FN_VEC(j, value) ==
  /\ j \in DOMAIN vals_in
  /\ j \notin done
  /\ vals_out' = [vals_out EXCEPT ![j] = value]
  /\ done' = done \cup {j}
  /\ UNCHANGED <<pc, fn, backend, x_in, par1, par2, log_form, ret, vals_in>>

(***************************************************************************)
(* The state machine: one call, scalar or container, from the idle state.  *)
(***************************************************************************)
Init ==
  /\ pc = "idle"
  /\ fn = "none"
  /\ backend = "none"
  /\ x_in = Unset
  /\ par1 = Unset
  /\ par2 = Unset
  /\ log_form = FALSE
  /\ ret = Unset
  /\ vals_in = <<>>
  /\ vals_out = <<>>
  /\ done = {}

CallDweibull ==
  /\ pc = "idle"
  /\ \E x \in XGrid, shape_par \in WeibullPars, scale_par \in WeibullPars, lf \in BOOLEAN :
       /\ fn' = "dweibull"
       /\ x_in' = x
       /\ par1' = shape_par
       /\ par2' = scale_par
       /\ log_form' = lf
       /\ ret' = dweibull(x, shape_par, scale_par, lf)
  /\ pc' = "scalar_done"
  /\ UNCHANGED <<backend, vals_in, vals_out, done>>

CallPnorm ==
  /\ pc = "idle"
  /\ \E x \in XGrid, mu_par \in NormMu, sigma_par \in NormSigma, lf \in BOOLEAN :
       /\ fn' = "pnorm"
       /\ x_in' = x
       /\ par1' = mu_par
       /\ par2' = sigma_par
       /\ log_form' = lf
       /\ ret' = pnorm(x, mu_par, sigma_par, lf)
  /\ pc' = "scalar_done"
  /\ UNCHANGED <<backend, vals_in, vals_out, done>>

CallDweibullContainer ==
  /\ pc = "idle"
  /\ \E b \in Backends, X \in Containers, shape_par \in VecPars, scale_par \in VecPars,
        lf \in BOOLEAN :
       /\ fn' = "dweibull"
       /\ backend' = b
       /\ vals_in' = X
       /\ par1' = shape_par
       /\ par2' = scale_par
       /\ log_form' = lf
       /\ DIST_FN(dweibull_kernel(b), b, X)
  /\ UNCHANGED <<x_in, ret, done>>

CallPnormContainer ==
  /\ pc = "idle"
  /\ \E b \in Backends, X \in Containers, mu_par \in VecPars, sigma_par \in VecPars,
        lf \in BOOLEAN :
       /\ fn' = "pnorm"
       /\ backend' = b
       /\ vals_in' = X
       /\ par1' = mu_par
       /\ par2' = sigma_par
       /\ log_form' = lf
       /\ DIST_FN(pnorm_kernel(b), b, X)
  /\ UNCHANGED <<x_in, ret, done>>

dweibull_vec ==
  /\ pc = "loop"
  /\ Kernel = "dweibull_vec"
  /\ \E j \in DOMAIN vals_in : EVAL_DIST_FN_VEC(j, dweibull_vec_elem(j))

pnorm_vec ==
  /\ pc = "loop"
  /\ Kernel = "pnorm_vec"
  /\ \E j \in DOMAIN vals_in : EVAL_DIST_FN_VEC(j, pnorm_vec_elem(j))

ReturnContainer ==
  /\ pc = "loop"
  /\ done = DOMAIN vals_in
  /\ pc' = "returned"
  /\ UNCHANGED <<fn, backend, x_in, par1, par2, log_form, ret, vals_in, vals_out, done>>

Next ==
  \/ CallDweibull
  \/ CallPnorm
  \/ CallDweibullContainer
  \/ CallPnormContainer
  \/ dweibull_vec
  \/ pnorm_vec
  \/ ReturnContainer

Spec == Init /\ [][Next]_vars

(***************************************************************************)
(* Properties.                                                             *)
(***************************************************************************)
ScalarCall(f) == pc = "scalar_done" /\ fn = f

\* the arguments of the call, in the common type
X_TC == static_cast_TC(x_in)
P1_TC == static_cast_TC(par1)
P2_TC == static_cast_TC(par2)

\* both parameters strictly positive
BothPositive == Gt(P1_TC, Zero) /\ Gt(P2_TC, Zero)

\* a finite x in the support [0, oo)
FiniteInSupport == IsFin(X_TC) /\ X_TC.val >= 0

\* C1: dweibull returns NaN whenever shape_par or scale_par is not > 0, for every
\* x (x < 0 and x = 0 too) and both values of log_form: the parameter check
\* comes before the x < 0 check.
C1_InvalidWeibullParamsGiveNaN ==
  (ScalarCall("dweibull") /\ ~BothPositive) => IsNaN(ret)

C1_Witness ==
  /\ ScalarCall("dweibull")
  /\ Lt(X_TC, Zero)
  /\ P2_TC = Zero
  /\ Gt(P1_TC, Zero)
  /\ IsNaN(ret)

\* the Normal parameters are valid: sigma > 0 and mu, sigma finite
NormValid == IsFin(P1_TC) /\ IsFin(P2_TC) /\ P2_TC.val > 0

\* 0.5 * (1 + erf(((x - mu) / sigma) / sqrt 2))
NormalCdfFormula ==
  Mul(Half, Add(One, Erf(Div(Div(Sub(X_TC, P1_TC), P2_TC), Fin(14142)))))

\* C2: pnorm returns NaN whenever sigma <= 0 or mu or sigma is not finite, for
\* every x and both values of log_form; for valid parameters it returns
\* 0.5 * (1 + erf(((x - mu) / sigma) / sqrt 2)), or its logarithm in log form.
C2_PnormNaNOrFormula ==
  ScalarCall("pnorm") =>
    /\ ~NormValid => IsNaN(ret)
    /\ (NormValid /\ ~log_form) => ret = NormalCdfFormula
    /\ (NormValid /\ log_form) => ret = Log(NormalCdfFormula)

C2_Witness ==
  /\ ScalarCall("pnorm")
  /\ IsFin(X_TC)
  /\ IsFin(P1_TC)
  /\ P2_TC = Zero
  /\ log_form
  /\ IsNaN(ret)

\* the scalar function a container call lifts
ScalarOf(f, x, p1, p2, lf) ==
  IF f = "dweibull" THEN dweibull(x, p1, p2, lf) ELSE pnorm(x, p1, p2, lf)

ContainerCallEnded == pc \in { "returned", "ill_formed" }

\* C3: every container call of dweibull and pnorm returns a container with as
\* many elements as the input, element i being the scalar function applied to
\* X[i] with the same parameters and log_form (NaN throughout when the
\* parameters are invalid).
C3_ContainerMatchesScalar ==
  ContainerCallEnded =>
    /\ pc = "returned"
    /\ Len(vals_out) = Len(vals_in)
    /\ \A i \in DOMAIN vals_in :
         vals_out[i] = ScalarOf(fn, vals_in[i], par1, par2, log_form)

\* C5: for valid Weibull parameters and every x < 0, dweibull returns exactly 0,
\* and exactly -infinity in log form.
C5_BelowSupportShortCircuits ==
  (ScalarCall("dweibull") /\ BothPositive /\ Lt(X_TC, Zero)) =>
    ret = (IF log_form THEN NInf ELSE Zero)

C5_Witness ==
  /\ ScalarCall("dweibull")
  /\ BothPositive
  /\ IsFin(X_TC)
  /\ Lt(X_TC, Zero)
  /\ log_form
  /\ ret = NInf

\* a, the log form, equals ln(t) to the format's tolerance: t carries an error of
\* one unit, so ln(t) one of Scale / t units, on top of the tables' 0.002; a true
\* form of 0 stands for any value below one unit
LogFormMatches(a, t) ==
  IF IsNaN(a) \/ IsNaN(t) THEN FALSE
  ELSE IF IsInf(t) \/ IsInf(a) THEN a = Log(t)
  ELSE IF t.val = 0 THEN a.val <= LogMag(1)
  ELSE Abs(a.val - Log(t).val) <= 20 + (2 * Scale) \div t.val

\* C6: for valid Weibull parameters and every x >= 0, x = 0 included, the log form
\* of dweibull equals the logarithm of its true-scale form.
C6_LogFormIsLnOfTrueForm ==
  (ScalarCall("dweibull") /\ BothPositive /\ FiniteInSupport) =>
    LET logres == IF log_form THEN ret ELSE dweibull(x_in, par1, par2, TRUE)
        trueres == IF log_form THEN dweibull(x_in, par1, par2, FALSE) ELSE ret
    IN  LogFormMatches(logres, trueres)

\* an iteration of the elementwise pass writes one output element, its own,
\* computed from its own input element and the broadcast parameters alone, and
\* leaves the input and every other output element as they were
C7_Step ==
  (pc = "loop" /\ pc' = "loop") =>
    \E j \in DOMAIN vals_in \ done :
      /\ done' = done \cup {j}
      /\ vals_in' = vals_in
      /\ <<fn', backend', par1', par2', log_form'>> = <<fn, backend, par1, par2, log_form>>
      /\ DOMAIN vals_out' = DOMAIN vals_out
      /\ \A i \in DOMAIN vals_out \ {j} : vals_out'[i] = vals_out[i]
      /\ vals_out'[j] = ScalarOf(fn, vals_in[j], par1, par2, log_form)

\* C7: the elementwise pass gives the same output in whatever order its element
\* evaluations run: each reads only its own input element and the parameters,
\* writes only its own output element, and leaves the input unchanged; the pass
\* returns once every element has been written.
C7_OrderIndependent ==
  /\ [][C7_Step]_vars
  /\ [](pc = "returned" =>
          /\ done = DOMAIN vals_in
          /\ \A i \in DOMAIN vals_out : vals_out[i] # Unset)

\* element 2 has been evaluated before element 1
C7_Witness ==
  /\ pc = "loop"
  /\ Len(vals_in) = 2
  /\ vals_in[1] # vals_in[2]
  /\ done = {2}
  /\ vals_out[2] = ScalarOf(fn, vals_in[2], par1, par2, log_form)

\* C8: for valid Normal parameters pnorm is monotone non-decreasing in x, in true
\* scale and in log form; its true-scale values lie in [0, 1]; it is 0 at
\* x = -infinity and 1 at x = +infinity.
C8_PnormMonotone ==
  (ScalarCall("pnorm") /\ NormValid) =>
    /\ \A x2 \in XGrid :
         Le(X_TC, static_cast_TC(x2)) => Le(ret, pnorm(x2, par1, par2, log_form))
    /\ (~log_form /\ ~IsNaN(X_TC)) => (Le(Zero, ret) /\ Le(ret, One))
    /\ X_TC = NInf => ret = (IF log_form THEN NInf ELSE Zero)
    /\ X_TC = PInf => ret = (IF log_form THEN Zero ELSE One)

C8_Witness ==
  /\ ScalarCall("pnorm")
  /\ NormValid
  /\ ~log_form
  /\ Lt(Zero, ret)
  /\ Lt(ret, Half)
  /\ \E x2 \in XGrid : Lt(ret, pnorm(x2, par1, par2, log_form))

\* the call dweibull(1.8, 2, 3, false)
C9_Call ==
  /\ ScalarCall("dweibull")
  /\ X_TC = Fin(18000)
  /\ P1_TC = Fin(2 * Scale)
  /\ P2_TC = Fin(3 * Scale)
  /\ ~log_form

\* "approximately": within 0.0005
Approx(a, n) == IsFin(a) /\ Abs(a.val - n) <= 5

\* C9 as stated: dweibull(1.8, 2, 3, false) is approximately 0.2986.
C9_Returns02986 == C9_Call => Approx(ret, 2986)

\* C9, amended: dweibull(1.8, 2, 3, false) is approximately 0.2791, the value of
\* (2/3) * (1.8/3) * exp(-(1.8/3)^2).
C9_Returns02791 == C9_Call => Approx(ret, 2791)

C9_Witness == C9_Call /\ IsFin(ret) /\ ret.val > 0

\* C10: for valid Weibull parameters and every finite x >= 0, x = 0 and
\* shape_par = 1 included, dweibull returns a value that is not NaN, in log and in
\* true-scale form.
C10_NoNaNOnSupport ==
  (ScalarCall("dweibull") /\ BothPositive /\ FiniteInSupport) => ~IsNaN(ret)

====
